---- MODULE Spec2Model ----
(***************************************************************************)
(* A model of the Snake Game (src/main.py): the grid movement of heads and *)
(* segments, the snakes' turning, growth and reset, the donuts' life cycle *)
(* and placement, the per-tick collision phase and the level loop of       *)
(* Snake_Game.play.  Rendering, sounds and frame pacing are left out: they *)
(* read the state and never write it.                                      *)
(***************************************************************************)
EXTENDS Integers, Sequences, FiniteSets, TLC

VARIABLES
    pc,          \* the position of Snake_Game.play
    players,     \* self.players
    score_limit, \* self.score_limit
    level,       \* self.level
    score,       \* self.score
    paused,      \* self.paused
    maze,        \* self.maze.cells, as a set of cells
    snakes,      \* self.snakes
    donuts,      \* self.donuts
    ci,          \* the index of the for loop of check_collisions
    frames,      \* unpaused ticks played in the current level
    nkeys,       \* events delivered in the current level
    probe,       \* a head on its own: Head.move applied to it repeatedly
    op,          \* history: the step taken last
    pre,         \* history: the game's state before the step taken last
    tick,        \* history: each snake's score and length when the running tick
                 \* began, and the snakes reset in it
    search       \* the donut reset_donut is placing, and history: the positions
                 \* it has drawn for it

vars == <<pc, players, score_limit, level, score, paused, maze, snakes, donuts,
          ci, frames, nkeys, probe, op, pre, tick, search>>

(***************************************************************************)
(* Program constants.                                                      *)
(***************************************************************************)
size_x == 31
size_y == 23
mid_x == size_x \div 2
mid_y == size_y \div 2
fps == 5
\* levels, the argument of Snake_Game(scale=0.8, players=2, levels=5)
last_level == 5
LifetimeFactor == 9
ScoreStep == 60
InitLength == 2
ValueBase == 6
ValueStep == 3
Costumes == 3

(***************************************************************************)
(* Bounds of the model.                                                    *)
(***************************************************************************)
\* One player's game played to its end: the unpaused ticks explored in a
\* level, the events delivered in a level.
SoloTicks == 5
SoloKeys == 1
\* The first ticks of one player's game, with more turns.
TurnTicks == 4
TurnKeys == 3
\* The first ticks of two players' game.
DuoTicks == 2
DuoKeys == 1

\* Two players' game in which the second snake turns round into the first.
CrossTicks == 5
CrossKeys == 3

\* One player's game left running until a donut's lifetime is over.
AgeTicks == 46
AgeKeys == 2

\* Two players' game in which both snakes are steered onto one cell.
MeetTicks == 5
MeetKeys == 4

\* Two players' game in which the first snake is steered onto the second
\* one's start cell while the second one is steered into a wall.
OrderTicks == 5
OrderKeys == 5

\* The positions reset_donut's loop is followed through for one donut.
MaxDraws == 4

Directions == {"up", "down", "left", "right"}

opposites == [d \in Directions |->
                CASE d = "right" -> "left"
                  [] d = "left" -> "right"
                  [] d = "up" -> "down"
                  [] d = "down" -> "up"]

key_map1 == ("K_UP" :> "up") @@ ("K_DOWN" :> "down") @@
            ("K_RIGHT" :> "right") @@ ("K_LEFT" :> "left")

key_map2 == ("K_w" :> "up") @@ ("K_s" :> "down") @@
            ("K_d" :> "right") @@ ("K_a" :> "left")

\* {**key_map1, **key_map2}
key_map12 == key_map2 @@ key_map1

\* The events pygame delivers: QUIT, or KEYDOWN with a key. K_SPACE stands
\* for every key that no handler reads.
Events == {"QUIT", "K_ESCAPE", "K_p", "K_SPACE"} \cup DOMAIN key_map12

\* The events one player's game is explored with.
SoloEvents == {"K_ESCAPE", "K_p", "K_UP", "K_DOWN", "K_LEFT", "K_d"}

\* The events one player's game is played to its end with.
EndEvents == {"K_ESCAPE", "K_p", "K_UP", "K_DOWN"}

\* The events the second snake is steered with: down, right, up.
CrossEvents == {"K_s", "K_d", "K_w"}

\* The events a game left running is explored with: pausing and resuming.
AgeEvents == {"K_p"}

\* The events both snakes are steered onto one cell with: down and left for
\* the first snake, down and right for the second.
MeetEvents == {"K_DOWN", "K_LEFT", "K_s", "K_d"}

\* The events the first snake is steered onto the second one's start cell
\* with (down, left, up), and the second one into a wall (up, right).
OrderEvents == {"K_DOWN", "K_LEFT", "K_UP", "K_w", "K_d"}

\* pg.event.get(): up to n events
EventSeqs(Evs, n) == UNION {[1..m -> Evs] : m \in 0..n}

Cell(x, y) == [x |-> x, y |-> y]

Grid == {Cell(x, y) : x \in 0..(size_x - 1), y \in 0..(size_y - 1)}

(***************************************************************************)
(* The maze files maze<level>.txt are static content outside the source:   *)
(* the model reads a short wall above the snakes' start cells on odd       *)
(* levels and below them on even levels.                                   *)
(***************************************************************************)
MazeFile(lv) ==
    IF lv % 2 = 1
    THEN {Cell(mid_x - 2, mid_y - 1), Cell(mid_x + 1, mid_y - 1), Cell(mid_x + 2, mid_y - 1)}
    ELSE {Cell(mid_x - 2, mid_y + 1), Cell(mid_x + 1, mid_y + 1), Cell(mid_x + 2, mid_y + 1)}

\* The cells the draws r.randrange(size_x), r.randrange(size_y) are explored
\* with: cells of the start row ahead of the first snake, and a far corner
\* no snake reaches within the ticks explored.
Ahead(from, to) == {Cell(x, mid_y) : x \in (mid_x + from)..(mid_x + to)}
FarCell == Cell(0, 0)
SoloCells == Ahead(2, 6) \cup {FarCell}
TurnCells == Ahead(2, 2) \cup {FarCell}
DuoCells == Ahead(3, 3) \cup {FarCell}

\* The cell below the start row on which the two snakes' heads meet, and the
\* far corner.
MeetCells == {Cell(mid_x - 2, mid_y + 1), FarCell}
\* Donuts out of the snakes' way.
OrderCells == {FarCell}

\* The cells the draws of reset_donut's loop are followed with: the start row
\* round the snakes, which holds their heads and tails, a maze cell, and the
\* far corner.
SearchCells == Ahead(-3, 3) \cup {Cell(mid_x + 1, mid_y - 1), FarCell}

(***************************************************************************)
(* Sprite, Segment, Head                                                   *)
(***************************************************************************)
Sprite_collides(self, other) == self.x = other.x /\ self.y = other.y

Segment_move(self, other) == [self EXCEPT !.x = other.x, !.y = other.y]

\* Head.move with the left edge wrapped to max_x instead of max_x - 1
Head_move_off_by_one(self, direction) ==
    CASE direction = "down" ->
            LET y1 == self.y + 1
            IN  [self EXCEPT !.y = IF y1 = size_y THEN 0 ELSE y1]
      [] direction = "up" ->
            LET y1 == self.y - 1
            IN  [self EXCEPT !.y = IF y1 = -1 THEN size_y - 1 ELSE y1]
      [] direction = "right" ->
            LET x1 == self.x + 1
            IN  [self EXCEPT !.x = IF x1 = size_x THEN 0 ELSE x1]
      [] direction = "left" ->
            LET x1 == self.x - 1
            IN  [self EXCEPT !.x = IF x1 = -1 THEN size_x ELSE x1]
      [] OTHER -> self

Head_move(self, direction) ==
    CASE direction = "down" ->
            LET y1 == self.y + 1
            IN  [self EXCEPT !.y = IF y1 = size_y THEN 0 ELSE y1]
      [] direction = "up" ->
            LET y1 == self.y - 1
            IN  [self EXCEPT !.y = IF y1 = -1 THEN size_y - 1 ELSE y1]
      [] direction = "right" ->
            LET x1 == self.x + 1
            IN  [self EXCEPT !.x = IF x1 = size_x THEN 0 ELSE x1]
      [] direction = "left" ->
            LET x1 == self.x - 1
            IN  [self EXCEPT !.x = IF x1 = -1 THEN size_x - 1 ELSE x1]
      [] OTHER -> self

(***************************************************************************)
(* Snake                                                                   *)
(***************************************************************************)
\* Snake.turn without the test for the opposite direction
Snake_turn_any(self, new_direction) == [self EXCEPT !.direction = new_direction]

Snake_turn(self, new_direction) ==
    IF ~ (new_direction = opposites[self.direction])
    THEN [self EXCEPT !.direction = new_direction]
    ELSE self

\* Snake.grow that counts the segments of an empty tail too
Snake_grow_counted(self, length) ==
    LET last == IF self.tail = <<>> THEN self.head ELSE self.tail[1]
        new_tail == [i \in 1..length |-> Cell(last.x, last.y)]
    IN  [self EXCEPT !.tail = new_tail \o self.tail, !.score = self.score + length]

\* Snake.grow with last = self.tail[-1], the segment behind the head
Snake_grow_at_front(self, length) ==
    LET last == IF self.tail = <<>> THEN self.head ELSE self.tail[Len(self.tail)]
        sc == IF self.tail = <<>> THEN self.score ELSE self.score + length
        new_tail == [i \in 1..length |-> Cell(last.x, last.y)]
    IN  [self EXCEPT !.tail = new_tail \o self.tail, !.score = sc]

Snake_grow(self, length) ==
    LET last == IF self.tail = <<>> THEN self.head ELSE self.tail[1]
        sc == IF self.tail = <<>> THEN self.score ELSE self.score + length
        new_tail == [i \in 1..length |-> Cell(last.x, last.y)]
    IN  [self EXCEPT !.tail = new_tail \o self.tail, !.score = sc]

\* Snake.reset that keeps the score
Snake_reset_keep_score(self) ==
    LET s1 == [self EXCEPT !.direction = self.init_direction,
                           !.head = Cell(self.init_x, self.init_y),
                           !.tail = <<>>]
        s2 == Snake_grow(s1, InitLength)
        s3 == [s2 EXCEPT !.key_buffer = <<>>]
    IN  [s3 EXCEPT !.head = Head_move(s3.head, s3.direction)]

\* Snake.reset that moves the head in the direction the snake had
Snake_reset_stale_direction(self) ==
    LET s1 == [self EXCEPT !.direction = self.init_direction,
                           !.head = Cell(self.init_x, self.init_y),
                           !.tail = <<>>]
        s2 == Snake_grow(s1, InitLength)
        s3 == [s2 EXCEPT !.score = 0, !.key_buffer = <<>>]
    IN  [s3 EXCEPT !.head = Head_move(s3.head, self.direction)]

\* Snake.reset without the head's step
Snake_reset_in_place(self) ==
    LET s1 == [self EXCEPT !.direction = self.init_direction,
                           !.head = Cell(self.init_x, self.init_y),
                           !.tail = <<>>]
        s2 == Snake_grow(s1, InitLength)
    IN  [s2 EXCEPT !.score = 0, !.key_buffer = <<>>]

\* Snake.reset without self.tail = []
Snake_reset_keep_tail(self) ==
    LET s1 == [self EXCEPT !.direction = self.init_direction,
                           !.head = Cell(self.init_x, self.init_y)]
        s2 == Snake_grow(s1, InitLength)
        s3 == [s2 EXCEPT !.score = 0, !.key_buffer = <<>>]
    IN  [s3 EXCEPT !.head = Head_move(s3.head, s3.direction)]

Snake_reset(self) ==
    LET s1 == [self EXCEPT !.direction = self.init_direction,
                           !.head = Cell(self.init_x, self.init_y),
                           !.tail = <<>>]
        s2 == Snake_grow(s1, InitLength)
        s3 == [s2 EXCEPT !.score = 0, !.key_buffer = <<>>]
    IN  [s3 EXCEPT !.head = Head_move(s3.head, s3.direction)]

\* Snake.__init__: the attributes, then reset()
Snake_init(direction, x, y, key_map) ==
    Snake_reset([head |-> Cell(x, y), tail |-> <<>>, direction |-> direction,
                 score |-> 0, key_buffer |-> <<>>, init_direction |-> direction,
                 init_x |-> x, init_y |-> y, key_map |-> key_map])

\* the loop of Snake.move taking the segments from the head's end
RECURSIVE FollowLoop_front_first(_, _)
FollowLoop_front_first(tail, i) ==
    IF i > Len(tail) - 1
    THEN tail
    ELSE LET j == Len(tail) - i
         IN  FollowLoop_front_first([tail EXCEPT ![j] = Segment_move(tail[j], tail[j + 1])],
                                    i + 1)

\* for i in range(0, len(self.tail)-1): the segments, rearmost first
RECURSIVE FollowLoop(_, _)
FollowLoop(tail, i) ==
    IF i > Len(tail) - 1
    THEN tail
    ELSE FollowLoop([tail EXCEPT ![i] = Segment_move(tail[i], tail[i + 1])], i + 1)

\* Snake.move with self.key_buffer.pop(), which takes the newest key
Snake_move_newest_first(self) ==
    LET n == Len(self.key_buffer)
        s1 == IF self.key_buffer # <<>>
              THEN Snake_turn([self EXCEPT !.key_buffer = SubSeq(self.key_buffer, 1, n - 1)],
                              self.key_map[self.key_buffer[n]])
              ELSE self
        t1 == FollowLoop(s1.tail, 1)
        t2 == [t1 EXCEPT ![Len(t1)] = Segment_move(t1[Len(t1)], s1.head)]
    IN  [s1 EXCEPT !.tail = t2, !.head = Head_move(s1.head, s1.direction)]

\* Snake.move with a while loop that turns to every key waiting in the buffer
Snake_move_drain(self) ==
    LET RECURSIVE TurnAll(_)
        TurnAll(s) ==
            IF s.key_buffer = <<>>
            THEN s
            ELSE TurnAll(Snake_turn([s EXCEPT !.key_buffer = Tail(s.key_buffer)],
                                    s.key_map[Head(s.key_buffer)]))
        s1 == TurnAll(self)
        t1 == FollowLoop(s1.tail, 1)
        t2 == [t1 EXCEPT ![Len(t1)] = Segment_move(t1[Len(t1)], s1.head)]
    IN  [s1 EXCEPT !.tail = t2, !.head = Head_move(s1.head, s1.direction)]

Snake_move(self) ==
    LET s1 == IF self.key_buffer # <<>>
              THEN Snake_turn([self EXCEPT !.key_buffer = Tail(self.key_buffer)],
                              self.key_map[Head(self.key_buffer)])
              ELSE self
        t1 == FollowLoop(s1.tail, 1)
        t2 == [t1 EXCEPT ![Len(t1)] = Segment_move(t1[Len(t1)], s1.head)]
    IN  [s1 EXCEPT !.tail = t2, !.head = Head_move(s1.head, s1.direction)]

\* Snake.collides with to_check = self.tail + maze.cells
Snake_collides_own(self, snks, mz) ==
    LET to_check == {self.tail[j] : j \in 1..Len(self.tail)} \cup mz
    IN  \E c \in to_check : Sprite_collides(self.head, c)

Snake_collides(self, snks, mz) ==
    LET to_check == UNION {{snks[i].tail[j] : j \in 1..Len(snks[i].tail)} : i \in 1..Len(snks)}
                    \cup mz
    IN  \E c \in to_check : Sprite_collides(self.head, c)

\* the loop of eat_if_you_can with a break after the first donut eaten
RECURSIVE EatLoop_first_only(_, _, _)
EatLoop_first_only(self, dons, k) ==
    IF k > Len(dons)
    THEN <<self, dons>>
    ELSE IF self.head.x = dons[k].x /\ self.head.y = dons[k].y
         THEN <<Snake_grow(self, dons[k].value), [dons EXCEPT ![k].to_be_reset = TRUE]>>
         ELSE EatLoop_first_only(self, dons, k + 1)

\* for donut in donuts: the pair <<snake, donuts>> after the loop from donut k on
RECURSIVE EatLoop(_, _, _)
EatLoop(self, dons, k) ==
    IF k > Len(dons)
    THEN <<self, dons>>
    ELSE IF self.head.x = dons[k].x /\ self.head.y = dons[k].y
         THEN EatLoop(Snake_grow(self, dons[k].value),
                      [dons EXCEPT ![k].to_be_reset = TRUE], k + 1)
         ELSE EatLoop(self, dons, k + 1)

Snake_eat_if_you_can(self, dons) == EatLoop(self, dons, 1)

(***************************************************************************)
(* Donut                                                                   *)
(***************************************************************************)
\* Donut.__init__: value and age are set by the first reset
Donut_init(lifetime) ==
    [x |-> 0, y |-> 0, value |-> 0, age |-> 0, lifetime |-> lifetime, to_be_reset |-> TRUE]

Donut_reset(self, costume_index) ==
    [self EXCEPT !.value = ValueBase + costume_index * ValueStep,
                 !.age = 0,
                 !.to_be_reset = FALSE]

\* Donut.move with the test self.age > self.lifetime
Donut_move_late(self) ==
    LET a == self.age + 1
    IN  [self EXCEPT !.age = a,
                     !.to_be_reset = IF a > self.lifetime THEN TRUE ELSE self.to_be_reset]

Donut_move(self) ==
    LET a == self.age + 1
    IN  [self EXCEPT !.age = a,
                     !.to_be_reset = IF a = self.lifetime THEN TRUE ELSE self.to_be_reset]

(***************************************************************************)
(* Snake_Game                                                              *)
(***************************************************************************)
create_snakes(n) ==
    IF n = 1
    THEN << Snake_init("right", mid_x, mid_y, key_map12) >>
    ELSE << Snake_init("right", mid_x + 1, mid_y, key_map1),
            Snake_init("left", mid_x - 1, mid_y, key_map2) >>

create_donuts(n) == [i \in 1..n |-> Donut_init(fps * LifetimeFactor)]

on_maze(donut, mz) == \E c \in mz : Sprite_collides(donut, c)

\* on_snake with forbidden = the tails only
on_snake_tails(donut, snks) ==
    \E i \in 1..Len(snks) :
        \E j \in 1..Len(snks[i].tail) : Sprite_collides(donut, snks[i].tail[j])

on_snake(donut, snks) ==
    \E i \in 1..Len(snks) :
        \/ \E j \in 1..Len(snks[i].tail) : Sprite_collides(donut, snks[i].tail[j])
        \/ Sprite_collides(donut, snks[i].head)

\* reset_donut: the donuts it can return. The search starts on the first snake's
\* head, which on_snake rejects, and redraws until a cell passes both tests.
reset_donut(donut, snks, mz, Cells) ==
    { [Donut_reset(donut, c) EXCEPT !.x = p.x, !.y = p.y] :
        c \in 0..(Costumes - 1),
        p \in {q \in Cells : ~ (on_snake(q, snks) \/ on_maze(q, mz))} }

\* for donut in self.donuts: the donut lists the loop can leave after its first
\* k rounds, resetting every donut (next_level) or the marked ones (check_donuts)
RECURSIVE DonutsLoop(_, _, _, _, _, _)
DonutsLoop(dons, k, snks, mz, Cells, marked_only) ==
    IF k = 0
    THEN {dons}
    ELSE { [r EXCEPT ![k] = d] :
             r \in DonutsLoop(dons, k - 1, snks, mz, Cells, marked_only),
             d \in IF marked_only /\ ~ dons[k].to_be_reset
                   THEN {dons[k]}
                   ELSE reset_donut(dons[k], snks, mz, Cells) }

\* check_keys, the events from event n on: <<exited, paused, snakes>>
RECURSIVE KeysLoop(_, _, _, _)
KeysLoop(evs, n, p, snks) ==
    IF n > Len(evs)
    THEN <<FALSE, p, snks>>
    ELSE IF evs[n] = "QUIT" \/ evs[n] = "K_ESCAPE"
         THEN <<TRUE, p, snks>>
         ELSE IF evs[n] = "K_p"
              THEN KeysLoop(evs, n + 1, ~ p, snks)
              ELSE KeysLoop(evs, n + 1, p,
                     [i \in 1..Len(snks) |->
                        IF evs[n] \in DOMAIN snks[i].key_map
                        THEN [snks[i] EXCEPT !.key_buffer = Append(@, evs[n])]
                        ELSE snks[i]])

handle_score(snks) ==
    LET RECURSIVE Sum(_)
        Sum(i) == IF i = 0 THEN 0 ELSE snks[i].score + Sum(i - 1)
    IN  Sum(Len(snks))

\* a round of check_collisions that resets every snake at a collision
collision_round_all(snks, dons, mz, i) ==
    LET e == Snake_eat_if_you_can(snks[i], dons)
        s1 == [snks EXCEPT ![i] = e[1]]
        hit == Snake_collides(s1[i], s1, mz)
    IN  [snakes |-> IF hit THEN [j \in 1..Len(s1) |-> Snake_reset(s1[j])] ELSE s1,
         donuts |-> e[2],
         hit |-> hit]

\* one round of the for loop of check_collisions, for snake i
collision_round(snks, dons, mz, i) ==
    LET e == Snake_eat_if_you_can(snks[i], dons)
        s1 == [snks EXCEPT ![i] = e[1]]
        hit == Snake_collides(s1[i], s1, mz)
    IN  [snakes |-> IF hit THEN [s1 EXCEPT ![i] = Snake_reset(s1[i])] ELSE s1,
         donuts |-> e[2],
         hit |-> hit]

Snapshot == [snakes |-> snakes, donuts |-> donuts, maze |-> maze, level |-> level,
             score |-> score, paused |-> paused]

Did(name, who, wasReset, evs) == [name |-> name, who |-> who, reset |-> wasReset, evs |-> evs]

NoTick == [start |-> <<>>, reset |-> {}]

\* while self.score <= self.score_limit
inner_loop_inclusive(sc, limit) == IF sc <= limit THEN "check_keys" ELSE "level_outro"

\* while self.score < self.score_limit
inner_loop(sc, limit) == IF sc < limit THEN "check_keys" ELSE "level_outro"

\* while self.level <= self.last_level
outer_loop_inclusive(lv) == IF lv <= last_level THEN "next_level" ELSE "done"

\* while self.level < self.last_level
outer_loop(lv) == IF lv < last_level THEN "next_level" ELSE "done"

\* the body of the inner loop without the test of self.paused
after_keys_unpaused(exited, p) == IF exited THEN "exit" ELSE "move_sprites"

\* the body of the inner loop after check_keys: sys.exit(), pause_display() or
\* the tick
after_keys(exited, p) ==
    IF exited THEN "exit" ELSE IF p THEN "check_keys" ELSE "move_sprites"

NoSearch == [k |-> 0, draws |-> 0]

NoProbe == [head |-> Cell(0, 0), start |-> Cell(0, 0), prev |-> Cell(0, 0),
            direction |-> "right", steps |-> 0]

\* Snake_Game.__init__
InitGame ==
    /\ pc = "players_menu"
    /\ players = 2
    /\ score_limit = 0
    /\ level = 0
    /\ score = 0
    /\ paused = FALSE
    /\ maze = {}
    /\ snakes = <<>>
    /\ donuts = <<>>
    /\ ci = 0
    /\ frames = 0
    /\ nkeys = 0
    /\ op = Did("init", 0, FALSE, <<>>)
    /\ pre = [snakes |-> <<>>, donuts |-> <<>>, maze |-> {}, level |-> 0,
              score |-> 0, paused |-> FALSE]
    /\ tick = NoTick
    /\ search = NoSearch

Init == InitGame /\ probe = NoProbe

players_menu(Sel) ==
    /\ pc = "players_menu"
    /\ \E selection \in Sel : players' = selection + 1
    /\ pc' = "difficulty_menu"
    /\ op' = Did("players_menu", 0, FALSE, <<>>)
    /\ pre' = Snapshot
    /\ UNCHANGED <<score_limit, level, score, paused, maze, snakes, donuts, ci, frames,
                   nkeys, probe, tick, search>>

difficulty_menu ==
    /\ pc = "difficulty_menu"
    /\ \E selection \in 0..2 : score_limit' = (selection + 1) * ScoreStep
    /\ pc' = "create_sprites"
    /\ op' = Did("difficulty_menu", 0, FALSE, <<>>)
    /\ pre' = Snapshot
    /\ UNCHANGED <<players, level, score, paused, maze, snakes, donuts, ci, frames,
                   nkeys, probe, tick, search>>

\* create_sprites, and the test of the outer while loop
create_sprites ==
    /\ pc = "create_sprites"
    /\ maze' = {}
    /\ snakes' = create_snakes(players)
    /\ donuts' = create_donuts(players)
    /\ pc' = outer_loop(level)
    /\ op' = Did("create_sprites", 0, FALSE, <<>>)
    /\ pre' = Snapshot
    /\ UNCHANGED <<players, score_limit, level, score, paused, ci, frames, nkeys, probe, tick,
                   search>>

\* next_level, and the test of the inner while loop
next_level(Cells) ==
    /\ pc = "next_level"
    /\ level' = level + 1
    /\ score' = 0
    /\ maze' = MazeFile(level + 1)
    /\ LET snks == [i \in 1..Len(snakes) |-> Snake_reset(snakes[i])]
       IN  /\ snakes' = snks
           /\ donuts' \in DonutsLoop(donuts, Len(donuts), snks, maze', Cells, FALSE)
    /\ frames' = 0
    /\ nkeys' = 0
    /\ tick' = NoTick
    /\ pc' = inner_loop(score', score_limit)
    /\ op' = Did("next_level", 0, FALSE, <<>>)
    /\ pre' = Snapshot
    /\ UNCHANGED <<players, score_limit, paused, ci, probe, search>>

\* check_keys, then pause_display when the game is paused
check_keys(Evs, K) ==
    /\ pc = "check_keys"
    /\ \E evs \in EventSeqs(Evs, K - nkeys) :
         LET r == KeysLoop(evs, 1, paused, snakes)
         IN  /\ paused' = r[2]
             /\ snakes' = r[3]
             /\ nkeys' = nkeys + Len(evs)
             /\ pc' = after_keys(r[1], r[2])
             /\ op' = Did("check_keys", 0, FALSE, evs)

    /\ pre' = Snapshot
    /\ UNCHANGED <<players, score_limit, level, score, maze, donuts, ci, frames, probe, tick,
                   search>>

\* move_sprites: self.sprites = self.snakes + self.donuts
move_sprites(T) ==
    /\ pc = "move_sprites"
    /\ frames < T
    /\ snakes' = [i \in 1..Len(snakes) |-> Snake_move(snakes[i])]
    /\ donuts' = [k \in 1..Len(donuts) |-> Donut_move(donuts[k])]
    /\ frames' = frames + 1
    /\ ci' = 1
    /\ tick' = [start |-> [i \in 1..Len(snakes) |->
                             [score |-> snakes[i].score, length |-> Len(snakes[i].tail)]],
                reset |-> {}]
    /\ pc' = "check_collisions"
    /\ op' = Did("move_sprites", 0, FALSE, <<>>)
    /\ pre' = Snapshot
    /\ UNCHANGED <<players, score_limit, level, score, paused, maze, nkeys, probe,
                   search>>

\* check_collisions, one round of its for loop in a step
check_collisions ==
    /\ pc = "check_collisions"
    /\ LET r == collision_round(snakes, donuts, maze, ci)
       IN  /\ snakes' = r.snakes
           /\ donuts' = r.donuts
           /\ op' = Did("check_collisions", ci, r.hit, <<>>)
           /\ tick' = [tick EXCEPT !.reset = IF r.hit THEN @ \cup {ci} ELSE @]
    /\ ci' = IF ci < Len(snakes) THEN ci + 1 ELSE 0
    /\ pc' = IF ci < Len(snakes) THEN "check_collisions" ELSE "check_donuts"
    /\ pre' = Snapshot
    /\ UNCHANGED <<players, score_limit, level, score, paused, maze, frames, nkeys, probe,
                   search>>

check_donuts(Cells) ==
    /\ pc = "check_donuts"
    /\ donuts' \in DonutsLoop(donuts, Len(donuts), snakes, maze, Cells, TRUE)
    /\ pc' = "refresh_stage"
    /\ op' = Did("check_donuts", 0, FALSE, <<>>)
    /\ pre' = Snapshot
    /\ UNCHANGED <<players, score_limit, level, score, paused, maze, snakes, ci, frames,
                   nkeys, probe, tick, search>>

\* refresh_stage (handle_score_and_level), tick, and the test of the inner loop
refresh_stage ==
    /\ pc = "refresh_stage"
    /\ score' = handle_score(snakes)
    /\ tick' = NoTick
    /\ pc' = inner_loop(score', score_limit)
    /\ op' = Did("refresh_stage", 0, FALSE, <<>>)
    /\ pre' = Snapshot
    /\ UNCHANGED <<players, score_limit, level, paused, maze, snakes, donuts, ci, frames,
                   nkeys, probe, search>>

\* level_outro, and the test of the outer while loop
level_outro ==
    /\ pc = "level_outro"
    /\ pc' = outer_loop(level)
    /\ op' = Did("level_outro", 0, FALSE, <<>>)
    /\ pre' = Snapshot
    /\ UNCHANGED <<players, score_limit, level, score, paused, maze, snakes, donuts, ci,
                   frames, nkeys, probe, tick, search>>

(***************************************************************************)
(* next_level with the while loop of reset_donut taken one draw at a time. *)
(***************************************************************************)
\* reset_donut before its loop: donut.reset(), then the donut is put on the
\* head of the first snake
start_search(donut, snks, costume_index) ==
    [Donut_reset(donut, costume_index) EXCEPT !.x = snks[1].head.x, !.y = snks[1].head.y]

\* the test of the while loop of reset_donut
still_searching(donut, snks, mz) == on_snake(donut, snks) \/ on_maze(donut, mz)

\* next_level up to the loop of reset_donut for the first donut
enter_level ==
    /\ pc = "next_level"
    /\ level' = level + 1
    /\ score' = 0
    /\ maze' = MazeFile(level + 1)
    /\ snakes' = [i \in 1..Len(snakes) |-> Snake_reset(snakes[i])]
    /\ \E c \in 0..(Costumes - 1) :
          donuts' = [donuts EXCEPT ![1] = start_search(donuts[1], snakes', c)]
    /\ search' = [k |-> 1, draws |-> 0]
    /\ frames' = 0
    /\ nkeys' = 0
    /\ tick' = NoTick
    /\ pc' = "reset_donut"
    /\ op' = Did("enter_level", 0, FALSE, <<>>)
    /\ pre' = Snapshot
    /\ UNCHANGED <<players, score_limit, paused, ci, probe>>

\* one round of the while loop of reset_donut: a new position is drawn
redraw(Cells) ==
    /\ pc = "reset_donut"
    /\ still_searching(donuts[search.k], snakes, maze)
    /\ search.draws < MaxDraws
    /\ \E p \in Cells :
          donuts' = [donuts EXCEPT ![search.k] = [@ EXCEPT !.x = p.x, !.y = p.y]]
    /\ search' = [search EXCEPT !.draws = @ + 1]
    /\ op' = Did("redraw", 0, FALSE, <<>>)
    /\ pre' = Snapshot
    /\ UNCHANGED <<pc, players, score_limit, level, score, paused, maze, snakes, ci,
                   frames, nkeys, probe, tick>>

\* the while loop of reset_donut ends; next_level goes on to the next donut
\* or returns, and the inner while loop of play is tested
placed ==
    /\ pc = "reset_donut"
    /\ ~ still_searching(donuts[search.k], snakes, maze)
    /\ IF search.k < Len(donuts)
       THEN /\ \E c \in 0..(Costumes - 1) :
                  donuts' = [donuts EXCEPT
                                ![search.k + 1] = start_search(donuts[search.k + 1], snakes, c)]
            /\ search' = [k |-> search.k + 1, draws |-> 0]
            /\ pc' = "reset_donut"
       ELSE /\ donuts' = donuts
            /\ search' = NoSearch
            /\ pc' = inner_loop(score, score_limit)
    /\ op' = Did("placed", 0, FALSE, <<>>)
    /\ pre' = Snapshot
    /\ UNCHANGED <<players, score_limit, level, score, paused, maze, snakes, ci,
                   frames, nkeys, probe, tick>>

NextSearch ==
    \/ players_menu({0, 1})
    \/ difficulty_menu
    \/ create_sprites
    \/ enter_level
    \/ redraw(SearchCells)
    \/ placed

SpecSearch == Init /\ [][NextSearch]_vars

(***************************************************************************)
(* A head on its own, anywhere on the grid, moved in one direction until   *)
(* it has gone round the grid.                                             *)
(***************************************************************************)
Round(direction) == IF direction \in {"left", "right"} THEN size_x ELSE size_y

InitHead ==
    /\ InitGame
    /\ probe \in {[head |-> c, start |-> c, prev |-> c, direction |-> d, steps |-> 0] :
                    c \in Grid, d \in Directions}

head_move ==
    /\ probe.steps < Round(probe.direction)
    /\ probe' = [probe EXCEPT !.prev = probe.head,
                              !.head = Head_move(probe.head, probe.direction),
                              !.steps = @ + 1]
    /\ UNCHANGED <<pc, players, score_limit, level, score, paused, maze, snakes, donuts,
                   ci, frames, nkeys, op, pre, tick, search>>

NextHead == head_move

SpecHead == InitHead /\ [][NextHead]_vars

(***************************************************************************)
(* One player's game, played to its end.                                   *)
(***************************************************************************)
NextSolo ==
    \/ players_menu({0})
    \/ difficulty_menu
    \/ create_sprites
    \/ next_level(SoloCells)
    \/ check_keys(EndEvents, SoloKeys)
    \/ move_sprites(SoloTicks)
    \/ check_collisions
    \/ check_donuts(SoloCells)
    \/ refresh_stage
    \/ level_outro

SpecSolo == Init /\ [][NextSolo]_vars

(***************************************************************************)
(* The first ticks of one player's game, with more turns.                  *)
(***************************************************************************)
NextTurn ==
    \/ players_menu({0})
    \/ difficulty_menu
    \/ create_sprites
    \/ next_level(TurnCells)
    \/ check_keys(SoloEvents, TurnKeys)
    \/ move_sprites(TurnTicks)
    \/ check_collisions
    \/ check_donuts(TurnCells)
    \/ refresh_stage

SpecTurn == Init /\ [][NextTurn]_vars

(***************************************************************************)
(* The first ticks of two players' game.                                   *)
(***************************************************************************)
NextDuo ==
    \/ players_menu({1})
    \/ difficulty_menu
    \/ create_sprites
    \/ next_level(DuoCells)
    \/ check_keys(Events, DuoKeys)
    \/ move_sprites(DuoTicks)
    \/ check_collisions
    \/ check_donuts(DuoCells)
    \/ refresh_stage

SpecDuo == Init /\ [][NextDuo]_vars

(***************************************************************************)
(* Two players' game in which the second snake is steered round into the   *)
(* first one's tail.                                                       *)
(***************************************************************************)
NextCross ==
    \/ players_menu({1})
    \/ difficulty_menu /\ score_limit' = ScoreStep
    \/ create_sprites
    \/ next_level(DuoCells)
    \/ check_keys(CrossEvents, CrossKeys)
    \/ move_sprites(CrossTicks)
    \/ check_collisions
    \/ check_donuts(DuoCells)
    \/ refresh_stage

SpecCross == Init /\ [][NextCross]_vars

(***************************************************************************)
(* One player's game left running, paused and resumed, until a donut's     *)
(* lifetime is over.                                                       *)
(***************************************************************************)
NextAge ==
    \/ players_menu({0})
    \/ difficulty_menu
    \/ create_sprites
    \/ next_level(DuoCells)
    \/ check_keys(AgeEvents, AgeKeys)
    \/ move_sprites(AgeTicks)
    \/ check_collisions
    \/ check_donuts(DuoCells)
    \/ refresh_stage

SpecAge == Init /\ [][NextAge]_vars

(***************************************************************************)
(* Two players' games in which pg.event.get() returns one event at most in *)
(* a frame: OneMore(K) lets check_keys take one event as long as fewer     *)
(* than K were delivered in the level.                                     *)
(***************************************************************************)
OneMore(K) == IF nkeys < K THEN nkeys + 1 ELSE nkeys

\* Both snakes are steered onto one cell below the start row, where a donut
\* may lie.
NextMeet ==
    \/ players_menu({1})
    \/ difficulty_menu /\ score_limit' = ScoreStep
    \/ create_sprites
    \/ next_level(MeetCells)
    \/ check_keys(MeetEvents, OneMore(MeetKeys))
    \/ move_sprites(MeetTicks)
    \/ check_collisions
    \/ check_donuts(MeetCells)
    \/ refresh_stage

SpecMeet == Init /\ [][NextMeet]_vars

\* The first snake is steered round onto the second one's start cell, the
\* second one into the wall above its start cell.
NextOrder ==
    \/ players_menu({1})
    \/ difficulty_menu /\ score_limit' = ScoreStep
    \/ create_sprites
    \/ next_level(OrderCells)
    \/ check_keys(OrderEvents, OneMore(OrderKeys))
    \/ move_sprites(OrderTicks)
    \/ check_collisions
    \/ check_donuts(OrderCells)
    \/ refresh_stage

SpecOrder == Init /\ [][NextOrder]_vars

(***************************************************************************)
(* What the claims are stated with.                                        *)
(***************************************************************************)
DX(d) == CASE d = "right" -> 1 [] d = "left" -> -1 [] OTHER -> 0
DY(d) == CASE d = "down" -> 1 [] d = "up" -> -1 [] OTHER -> 0

\* one grid step from cell c in direction d, on the torus
StepFrom(c, d) == Cell((c.x + DX(d) + size_x) % size_x, (c.y + DY(d) + size_y) % size_y)

\* the direction whose step undoes the step of d
Reverse(d) == CHOOSE e \in Directions : DX(e) = - DX(d) /\ DY(e) = - DY(d)

TailCells(s) == {s.tail[j] : j \in 1..Len(s.tail)}

Occupied(snks, mz) ==
    mz \cup UNION {TailCells(snks[i]) \cup {snks[i].head} : i \in 1..Len(snks)}

TotalScore(snks) ==
    IF Len(snks) = 0 THEN 0
    ELSE IF Len(snks) = 1 THEN snks[1].score ELSE snks[1].score + snks[2].score

Moved == op.name = "move_sprites"
Collided == op.name = "check_collisions" /\ op.reset

(***************************************************************************)
(* C1. Chain-follow: after Snake.move() of a snake with two or more        *)
(* segments, every segment is where the segment ahead of it was before the *)
(* move, the segment next to the head is where the head was, and the head  *)
(* is one grid step further in the snake's direction.                      *)
(***************************************************************************)
C1_ChainFollow ==
    Moved =>
        \A i \in 1..Len(snakes) :
            LET old == pre.snakes[i]
                new == snakes[i]
                n == Len(old.tail)
            IN  n >= 2 =>
                  /\ Len(new.tail) = n
                  /\ \A j \in 1..(n - 1) : new.tail[j] = old.tail[j + 1]
                  /\ new.tail[n] = old.head
                  /\ new.head = StepFrom(old.head, new.direction)

\* a snake that has eaten and turned has moved: its last three segments were
\* on three different cells
C1_Witness ==
    /\ Moved
    /\ \E i \in 1..Len(snakes) :
          LET old == pre.snakes[i]
              n == Len(old.tail)
          IN  /\ n >= 8
              /\ old.tail[n] # old.tail[n - 1]
              /\ old.tail[n - 1] # old.tail[n - 2]
              /\ old.direction # snakes[i].direction

C3_LevelCompletion ==
    /\ pc \notin {"players_menu", "difficulty_menu"} => score_limit \in {60, 120, 180}
    /\ pc = "level_outro" => TotalScore(snakes) >= score_limit
    /\ pc \in {"check_keys", "move_sprites"} => TotalScore(snakes) < score_limit

C3_Witness ==
    /\ pc = "level_outro"
    /\ op.name = "refresh_stage"
    /\ TotalScore(snakes) = score_limit

(***************************************************************************)
(* C4, as claimed: a frame handled while the game is paused and with no P  *)
(* among its events changes nothing of the snakes, the donuts, the total   *)
(* score or the level.                                                     *)
(***************************************************************************)
PausedFrame ==
    /\ op.name = "check_keys"
    /\ pre.paused
    /\ \A n \in 1..Len(op.evs) : op.evs[n] # "K_p"

C4_Original ==
    PausedFrame =>
        /\ snakes = pre.snakes
        /\ donuts = pre.donuts
        /\ score = pre.score
        /\ level = pre.level

\* the keys of evs that are in key_map, in their order
RECURSIVE Mapped(_, _)
Mapped(evs, key_map) ==
    IF evs = <<>> THEN <<>>
    ELSE IF Head(evs) \in DOMAIN key_map
         THEN <<Head(evs)>> \o Mapped(Tail(evs), key_map)
         ELSE Mapped(Tail(evs), key_map)

\* the events handled before sys.exit()
RECURSIVE BeforeExit(_)
BeforeExit(evs) ==
    IF evs = <<>> \/ Head(evs) \in {"QUIT", "K_ESCAPE"} THEN <<>>
    ELSE <<Head(evs)>> \o BeforeExit(Tail(evs))

(***************************************************************************)
(* C4, what the code keeps: while paused no tick runs, and a frame handled *)
(* while paused with no P among its events changes nothing of the snakes'  *)
(* heads, tails, directions and scores, the donuts, the total score or the *)
(* level; the direction keys it delivers are still appended to the snakes' *)
(* key buffers.                                                            *)
(***************************************************************************)
C4_Paused ==
    /\ paused => pc \in {"check_keys", "exit"}
    /\ PausedFrame =>
          /\ \A i \in 1..Len(snakes) :
                /\ snakes[i] = [pre.snakes[i] EXCEPT !.key_buffer = snakes[i].key_buffer]
                /\ snakes[i].key_buffer =
                      pre.snakes[i].key_buffer \o Mapped(BeforeExit(op.evs), snakes[i].key_map)
          /\ donuts = pre.donuts
          /\ score = pre.score
          /\ level = pre.level
          /\ paused

\* a direction key arrives while the game is paused
C4_Witness ==
    /\ PausedFrame
    /\ paused
    /\ \E i \in 1..Len(snakes) : snakes[i].key_buffer # pre.snakes[i].key_buffer

(***************************************************************************)
(* C5. Donut respawn validity: a donut that reset_donut has just placed,   *)
(* at the start of a level or in check_donuts, is on no maze cell and on   *)
(* no head or segment of any snake.                                        *)
(***************************************************************************)
C5_RespawnValid ==
    /\ op.name = "next_level" =>
          \A k \in 1..Len(donuts) :
              Cell(donuts[k].x, donuts[k].y) \notin Occupied(snakes, maze)
    /\ op.name = "check_donuts" =>
          \A k \in 1..Len(donuts) :
              pre.donuts[k].to_be_reset =>
                  Cell(donuts[k].x, donuts[k].y) \notin Occupied(snakes, maze)

\* a donut is placed again after a snake has eaten it
C5_Witness ==
    /\ op.name = "check_donuts"
    /\ \E k \in 1..Len(donuts) :
          /\ pre.donuts[k].to_be_reset
          /\ \E i \in 1..Len(snakes) : snakes[i].head = Cell(pre.donuts[k].x, pre.donuts[k].y)

(***************************************************************************)
(* C6. No-reverse: the request a move takes from the key buffer is removed *)
(* from it; when it asks for the reverse of the snake's direction the      *)
(* direction stays, otherwise the direction becomes the one asked for; a   *)
(* move with an empty buffer keeps the direction.                          *)
(***************************************************************************)
C6_NoReverse ==
    Moved =>
        \A i \in 1..Len(snakes) :
            LET old == pre.snakes[i]
                new == snakes[i]
            IN  IF old.key_buffer = <<>>
                THEN new.direction = old.direction /\ new.key_buffer = <<>>
                ELSE LET asked == old.key_map[Head(old.key_buffer)]
                     IN  /\ new.key_buffer = Tail(old.key_buffer)
                         /\ asked = Reverse(old.direction) => new.direction = old.direction
                         /\ asked # Reverse(old.direction) => new.direction = asked

\* a snake heading left, after two turns, is asked to head right
C6_Witness ==
    /\ Moved
    /\ \E i \in 1..Len(snakes) :
          LET old == pre.snakes[i]
          IN  /\ old.key_buffer # <<>>
              /\ old.direction = "left"
              /\ old.key_map[Head(old.key_buffer)] = "right"
              /\ snakes[i].direction = "left"

(***************************************************************************)
(* C7. Growth and score: grow(k) on a snake with an empty tail, as reset() *)
(* calls it, adds k segments and keeps the score; grow(k) on a snake with  *)
(* a tail adds k segments and k points. Eating a donut is such a growth by *)
(* the donut's value. grow is applied to every snake as a round of the     *)
(* collision phase leaves it.                                              *)
(***************************************************************************)
\* the amounts the game grows a snake by: reset's two segments, a donut's value
GrowAmounts == {InitLength} \cup {ValueBase + c * ValueStep : c \in 0..(Costumes - 1)}

C7_GrowthScore ==
    /\ op.name = "check_collisions" =>
        \A i \in 1..Len(snakes) : \A k \in GrowAmounts :
          LET s == snakes[i]
              e == [s EXCEPT !.tail = <<>>]
              grown_e == Snake_grow(e, k)
              grown_s == Snake_grow(s, k)
          IN  /\ Len(grown_e.tail) = k
              /\ grown_e.score = e.score
              /\ s.tail # <<>> =>
                    /\ Len(grown_s.tail) = Len(s.tail) + k
                    /\ grown_s.score = s.score + k
    /\ (op.name = "check_collisions" /\ ~ op.reset) =>
          LET i == op.who
              eaten == {k \in 1..Len(donuts) :
                          Cell(pre.donuts[k].x, pre.donuts[k].y) = pre.snakes[i].head}
          IN  /\ eaten = {} => snakes[i] = pre.snakes[i]
              /\ \A k \in eaten :
                    Cardinality(eaten) = 1 =>
                        /\ Len(snakes[i].tail) = Len(pre.snakes[i].tail) + pre.donuts[k].value
                        /\ snakes[i].score = pre.snakes[i].score + pre.donuts[k].value

\* a snake that has points eats again
C7_Witness ==
    /\ op.name = "check_collisions"
    /\ ~ op.reset
    /\ pre.snakes[op.who].score > 0
    /\ snakes[op.who].score > pre.snakes[op.who].score
    /\ Len(snakes[op.who].tail) = snakes[op.who].score + InitLength

(***************************************************************************)
(* C8. Wraparound: Head.move changes one coordinate by one step modulo the *)
(* grid size, the head stays on the grid, and size_x moves to the left or  *)
(* right, or size_y moves up or down, bring it back to where it started.   *)
(***************************************************************************)
C8_Wraparound ==
    /\ probe.head \in Grid
    /\ probe.steps > 0 => probe.head = StepFrom(probe.prev, probe.direction)
    /\ probe.steps = Round(probe.direction) => probe.head = probe.start

\* a head that started on the right edge has gone round to the right
C8_Witness ==
    /\ probe.direction = "right"
    /\ probe.start.x = size_x - 1
    /\ probe.steps = size_x
    /\ probe.head = probe.start

(***************************************************************************)
(* C9, as claimed: at the end of a tick no snake has a lower score or      *)
(* fewer segments than when the tick began.                                *)
(***************************************************************************)
TickDone == pc = "refresh_stage"

C9_Original ==
    TickDone =>
        \A i \in 1..Len(snakes) :
            /\ snakes[i].score >= tick.start[i].score
            /\ Len(snakes[i].tail) >= tick.start[i].length

(***************************************************************************)
(* C9, amended: at the end of a tick a snake that no collision has reset   *)
(* in the tick has no lower score and no fewer segments than when the tick *)
(* began; a snake that a collision has reset in the tick has score 0 and   *)
(* two segments.                                                           *)
(***************************************************************************)
C9_Monotonic ==
    TickDone =>
        \A i \in 1..Len(snakes) :
            IF i \in tick.reset
            THEN snakes[i].score = 0 /\ Len(snakes[i].tail) = 2
            ELSE /\ snakes[i].score >= tick.start[i].score
                 /\ Len(snakes[i].tail) >= tick.start[i].length

\* a snake that had points is reset by a collision
C9_Witness ==
    /\ TickDone
    /\ \E i \in tick.reset : tick.start[i].score > 0

(***************************************************************************)
(* C10, as claimed: one player's snake, reset after running into its own   *)
(* tail, has its head on (15,11), score 0 and two segments.                *)
(***************************************************************************)
SelfCollided ==
    /\ Collided
    /\ Len(snakes) = 1
    /\ pre.snakes[1].head \in TailCells(pre.snakes[1])

C10_Original ==
    SelfCollided =>
        /\ snakes[1].head = Cell(15, 11)
        /\ snakes[1].score = 0
        /\ Len(snakes[1].tail) = 2

(***************************************************************************)
(* C10, amended: one player's snake, reset after running into its own      *)
(* tail, has its head on (16,11), one step to the right of its start cell  *)
(* (15,11), heads right, and has score 0 and two segments, both on         *)
(* (15,11).                                                                *)
(***************************************************************************)
C10_ResetPosition ==
    SelfCollided =>
        /\ snakes[1].head = Cell(16, 11)
        /\ snakes[1].direction = "right"
        /\ snakes[1].score = 0
        /\ snakes[1].tail = <<Cell(15, 11), Cell(15, 11)>>

C10_Witness ==
    /\ SelfCollided
    /\ pre.snakes[1].score > 0
    /\ snakes[1].head = Cell(16, 11)

(***************************************************************************)
(* C11. Level progression: the level index changes only in next_level, by  *)
(* one, from 1 to last_level; next_level is reached from create_sprites    *)
(* (level 0) or from the outro of a level whose loop ended with the score  *)
(* at the threshold; it reloads the maze, resets every snake and every     *)
(* donut and sets the score to 0; after the outro of the last level the    *)
(* game is over and no level beyond last_level is started.                 *)
(***************************************************************************)
DonutValues == {ValueBase + c * ValueStep : c \in 0..(Costumes - 1)}

\* snake s as reset() leaves it
FreshlyReset(s) ==
    /\ s.direction = s.init_direction
    /\ s.tail = <<Cell(s.init_x, s.init_y), Cell(s.init_x, s.init_y)>>
    /\ s.score = 0
    /\ s.key_buffer = <<>>
    /\ s.head = StepFrom(Cell(s.init_x, s.init_y), s.init_direction)

\* donut d as reset_donut leaves it
FreshlyPlaced(d, snks, mz) ==
    /\ d.age = 0
    /\ ~ d.to_be_reset
    /\ d.value \in DonutValues
    /\ Cell(d.x, d.y) \notin Occupied(snks, mz)

C11_LevelProgression ==
    /\ level \in 0..last_level
    /\ level # pre.level => op.name = "next_level"
    /\ op.name = "next_level" =>
          /\ level = pre.level + 1
          /\ score = 0
          /\ maze = MazeFile(level)
          /\ \A i \in 1..Len(snakes) : FreshlyReset(snakes[i])
          /\ \A k \in 1..Len(donuts) : FreshlyPlaced(donuts[k], snakes, maze)
    /\ pc = "next_level" =>
          \/ op.name = "create_sprites" /\ level = 0
          \/ op.name = "level_outro" /\ level \in 1..(last_level - 1)
    /\ pc = "level_outro" =>
          /\ op.name = "refresh_stage"
          /\ score = TotalScore(snakes)
          /\ score >= score_limit
    /\ op.name = "level_outro" => score >= score_limit /\ level \in 1..last_level
    /\ pc \in {"check_keys", "move_sprites", "check_collisions", "check_donuts",
               "refresh_stage"} => level \in 1..last_level
    /\ pc = "done" => level = last_level /\ op.name = "level_outro"

\* the last level has been played to its threshold and the game is over
C11_Witness ==
    /\ pc = "done"
    /\ level = last_level
    /\ op.name = "level_outro"
    /\ score >= score_limit

(***************************************************************************)
(* C12, as claimed: a snake that grows on eating gets its new segments at  *)
(* the place of its frontmost segment, the one right behind the head; a    *)
(* snake with no tail gets them at the head's place.                       *)
(***************************************************************************)
\* the last step was a round of check_collisions in which its snake ate
Ate ==
    /\ op.name = "check_collisions"
    /\ ~ op.reset
    /\ Len(snakes[op.who].tail) > Len(pre.snakes[op.who].tail)

\* the segments snake s gets when it grows by k with no tail
GrownFromNothing(s, k) == Snake_grow([s EXCEPT !.tail = <<>>], k).tail

C12_Original ==
    /\ Ate =>
          LET old == pre.snakes[op.who]
              new == snakes[op.who]
              k == Len(new.tail) - Len(old.tail)
          IN  \A j \in 1..k : new.tail[j] = old.tail[Len(old.tail)]
    /\ op.name = "check_collisions" =>
          \A i \in 1..Len(snakes) :
              GrownFromNothing(snakes[i], InitLength) = <<snakes[i].head, snakes[i].head>>

(***************************************************************************)
(* C12, amended: a snake that grows on eating gets its new segments at the *)
(* place of its rearmost segment, tail[0], the one farthest from the head, *)
(* and they are put behind it: the segments it had keep their places and   *)
(* their order; a snake with no tail gets them at the head's place, as in  *)
(* reset(), where both segments lie on the initial cell.                   *)
(***************************************************************************)
C12_GrowthPlacement ==
    /\ Ate =>
          LET old == pre.snakes[op.who]
              new == snakes[op.who]
              k == Len(new.tail) - Len(old.tail)
          IN  /\ \A j \in 1..k : new.tail[j] = old.tail[1]
              /\ SubSeq(new.tail, k + 1, Len(new.tail)) = old.tail
              /\ new.head = old.head
    /\ op.name = "check_collisions" =>
          \A i \in 1..Len(snakes) :
              GrownFromNothing(snakes[i], InitLength) = <<snakes[i].head, snakes[i].head>>
    /\ Collided =>
          \A j \in 1..Len(snakes[op.who].tail) :
              snakes[op.who].tail[j] = Cell(snakes[op.who].init_x, snakes[op.who].init_y)

\* a snake whose rearmost and frontmost segments lie on different cells eats
C12_Witness ==
    /\ Ate
    /\ pre.snakes[op.who].tail[1] # pre.snakes[op.who].tail[Len(pre.snakes[op.who].tail)]
    /\ snakes[op.who].tail[1] = pre.snakes[op.who].tail[1]

(***************************************************************************)
(* C13. Reset postcondition: right after Snake.reset(), at construction,   *)
(* at a level's start or at a collision, the snake has its initial         *)
(* direction, two segments on its initial cell, score 0, an empty key      *)
(* buffer and its head one grid step from the initial cell in the initial  *)
(* direction, so the head lies on none of the snake's own segments.        *)
(***************************************************************************)
C13_ResetPostcondition ==
    /\ Collided =>
          /\ FreshlyReset(snakes[op.who])
          /\ snakes[op.who].head \notin TailCells(snakes[op.who])
    /\ op.name \in {"create_sprites", "next_level"} =>
          \A i \in 1..Len(snakes) :
              /\ FreshlyReset(snakes[i])
              /\ snakes[i].head \notin TailCells(snakes[i])

\* the second snake, which starts heading left, is reset at a collision it ran
\* into after a turn
C13_Witness ==
    /\ Collided
    /\ op.who = 2
    /\ snakes[2].init_direction = "left"
    /\ pre.snakes[2].direction # "left"
    /\ snakes[2].head = Cell(mid_x - 2, mid_y)

(***************************************************************************)
(* C14. Collision rule: in its round of check_collisions, which comes      *)
(* after every snake has moved, a snake is reset if and only if its head   *)
(* is on a maze cell or on a segment of any snake's tail, its own or the   *)
(* other's, as they are when the round begins (the snake's own eating in   *)
(* the round puts its new segments on the cell of a segment it had);       *)
(* another snake's head is no obstacle.                                    *)
(***************************************************************************)
\* the cells a head must not be on
Obstacles(snks, mz) == mz \cup UNION {TailCells(snks[j]) : j \in 1..Len(snks)}

C15_DonutLifecycle ==
    /\ \A k \in 1..Len(donuts) : donuts[k].lifetime = 45
    /\ Moved =>
          \A k \in 1..Len(donuts) :
              /\ ~ pre.donuts[k].to_be_reset
              /\ donuts[k].age = pre.donuts[k].age + 1
              /\ donuts[k].to_be_reset <=> donuts[k].age = donuts[k].lifetime
    /\ op.name = "check_collisions" =>
          \A k \in 1..Len(donuts) :
              /\ donuts[k].age = pre.donuts[k].age
              /\ donuts[k].to_be_reset <=>
                    \/ pre.donuts[k].to_be_reset
                    \/ Cell(pre.donuts[k].x, pre.donuts[k].y) = pre.snakes[op.who].head
    /\ op.name = "check_donuts" =>
          \A k \in 1..Len(donuts) :
              IF pre.donuts[k].to_be_reset
              THEN donuts[k].age = 0 /\ donuts[k].value \in DonutValues
              ELSE donuts[k] = pre.donuts[k]
    /\ op.name = "check_keys" => donuts = pre.donuts
    /\ pc = "refresh_stage" =>
          \A k \in 1..Len(donuts) :
              /\ ~ donuts[k].to_be_reset
              /\ donuts[k].age < donuts[k].lifetime

\* a donut that no snake has eaten is respawned in the tick in which its age
\* reached 45
C15_Witness ==
    /\ op.name = "check_donuts"
    /\ \E k \in 1..Len(donuts) :
          /\ pre.donuts[k].age = 45
          /\ pre.donuts[k].to_be_reset
          /\ \A i \in 1..Len(snakes) : snakes[i].head # Cell(pre.donuts[k].x, pre.donuts[k].y)
          /\ donuts[k].age = 0
          /\ ~ donuts[k].to_be_reset

(***************************************************************************)
(* C16. Input queue: check_keys appends each key, in the order of arrival, *)
(* to the buffer of every snake whose key map holds it and to no other;    *)
(* every unpaused tick takes the oldest key off a non-empty buffer and     *)
(* turns the snake to it unless it is the opposite of the snake's          *)
(* direction, in which case the key is dropped all the same; the buffer    *)
(* changes in no other way but for being emptied by a reset.               *)
(***************************************************************************)
C16_InputQueue ==
    /\ op.name = "check_keys" =>
          \A i \in 1..Len(snakes) :
              snakes[i].key_buffer =
                  pre.snakes[i].key_buffer \o Mapped(BeforeExit(op.evs), snakes[i].key_map)
    /\ Moved =>
          \A i \in 1..Len(snakes) :
              LET old == pre.snakes[i]
                  new == snakes[i]
              IN  IF old.key_buffer = <<>>
                  THEN new.key_buffer = <<>> /\ new.direction = old.direction
                  ELSE LET asked == old.key_map[Head(old.key_buffer)]
                       IN  /\ new.key_buffer = Tail(old.key_buffer)
                           /\ new.direction = IF asked = Reverse(old.direction)
                                              THEN old.direction
                                              ELSE asked
    /\ op.name = "check_collisions" =>
          \A i \in 1..Len(snakes) :
              snakes[i].key_buffer = IF i = op.who /\ op.reset
                                     THEN <<>>
                                     ELSE pre.snakes[i].key_buffer
    /\ op.name \in {"check_donuts", "refresh_stage"} =>
          \A i \in 1..Len(snakes) : snakes[i].key_buffer = pre.snakes[i].key_buffer

\* in two players' game the second snake takes the older of two different
\* keys waiting in its buffer; none of them has reached the first snake
C16_Witness ==
    /\ Moved
    /\ Len(snakes) = 2
    /\ Len(pre.snakes[2].key_buffer) >= 2
    /\ pre.snakes[2].key_buffer[1] # pre.snakes[2].key_buffer[2]
    /\ snakes[2].key_buffer = Tail(pre.snakes[2].key_buffer)
    /\ snakes[2].direction = key_map2[pre.snakes[2].key_buffer[1]]
    /\ snakes[2].direction # pre.snakes[2].direction
    /\ pre.snakes[1].key_buffer = <<>>

(***************************************************************************)
(* C17. No self-reversal from one tick to the next: whatever keys wait in  *)
(* the buffer, the step a snake's head takes in a tick is never the        *)
(* opposite of the step it took last, in the tick before or in reset(), so *)
(* the head never moves back onto the cell it has just left, which is the  *)
(* cell of the segment right behind it.                                    *)
(***************************************************************************)
\* the cell of the segment right behind the head
Behind(s) == s.tail[Len(s.tail)]

C17_NoSelfReversal ==
    /\ \A i \in 1..Len(snakes) : snakes[i].head = StepFrom(Behind(snakes[i]), snakes[i].direction)
    /\ Moved =>
          \A i \in 1..Len(snakes) :
              LET old == pre.snakes[i]
                  new == snakes[i]
              IN  /\ new.head = StepFrom(old.head, new.direction)
                  /\ new.direction # Reverse(old.direction)
                  /\ new.head # Behind(old)

\* a snake heading down, with the key for up waiting in its buffer, goes on
\* down
C17_Witness ==
    /\ Moved
    /\ pre.snakes[1].direction = "down"
    /\ pre.snakes[1].key_buffer # <<>>
    /\ pre.snakes[1].key_map[Head(pre.snakes[1].key_buffer)] = "up"
    /\ snakes[1].head = StepFrom(pre.snakes[1].head, "down")
    /\ snakes[1].head # Behind(pre.snakes[1])

(***************************************************************************)
(* C18, as claimed: once a level of two players' game has begun, the two   *)
(* donuts are never on the same cell, and no snake eats more than one      *)
(* donut in a tick.                                                        *)
(***************************************************************************)
\* the donuts on the head of the snake whose round of check_collisions was the
\* last step, as the round found them
OnHead == {k \in 1..Len(pre.donuts) :
             Cell(pre.donuts[k].x, pre.donuts[k].y) = pre.snakes[op.who].head}

C18_Original ==
    /\ (level >= 1 /\ Len(donuts) = 2) =>
          Cell(donuts[1].x, donuts[1].y) # Cell(donuts[2].x, donuts[2].y)
    /\ op.name = "check_collisions" => Cardinality(OnHead) <= 1

(***************************************************************************)
(* C18, amended: two donuts can be on the same cell, since reset_donut     *)
(* keeps a donut off the maze and off the snakes but not off the other     *)
(* donut; a snake whose head comes onto donuts eats every one of them in   *)
(* that tick, each on its own: it grows and scores by the sum of their     *)
(* values and each of them is marked for respawn, and no other donut is.   *)
(***************************************************************************)
\* the sum of the values of the donuts on the head
ValueOnHead ==
    LET RECURSIVE Sum(_)
        Sum(k) == IF k = 0 THEN 0
                  ELSE (IF k \in OnHead THEN pre.donuts[k].value ELSE 0) + Sum(k - 1)
    IN  Sum(Len(pre.donuts))

C18_SharedCell ==
    op.name = "check_collisions" =>
        /\ \A k \in 1..Len(donuts) :
              /\ donuts[k].to_be_reset <=> (pre.donuts[k].to_be_reset \/ k \in OnHead)
              /\ Cell(donuts[k].x, donuts[k].y) = Cell(pre.donuts[k].x, pre.donuts[k].y)
        /\ ~ op.reset =>
              /\ Len(snakes[op.who].tail) = Len(pre.snakes[op.who].tail) + ValueOnHead
              /\ snakes[op.who].score = pre.snakes[op.who].score + ValueOnHead

\* a snake eats the two donuts, which lie on one cell, in one tick
C18_Witness ==
    /\ op.name = "check_collisions"
    /\ ~ op.reset
    /\ Cardinality(OnHead) = 2
    /\ snakes[op.who].score = pre.donuts[1].value + pre.donuts[2].value
    /\ donuts[1].to_be_reset /\ donuts[2].to_be_reset

(***************************************************************************)
(* C19, as claimed: the search of reset_donut for a position is bounded:   *)
(* after a bounded number of draws it has ended, with a free cell or, if   *)
(* it found none, with an error. RetryLimit stands for the bound; the      *)
(* while loop of reset_donut has no count of its rounds and no way out but *)
(* a free cell, so it is exceeded whatever bound is taken.                 *)
(***************************************************************************)
RetryLimit == MaxDraws - 2

C19_Original == search.draws > RetryLimit => pc # "reset_donut"

(***************************************************************************)
(* C20. Length and score: in every state from the snakes' construction on, *)
(* through moves, eating, collision resets and level starts, a snake's     *)
(* tail has two segments more than the snake has points; a snake that      *)
(* eats a donut of value 6 from its start state has 8 segments and 6       *)
(* points.                                                                 *)
(***************************************************************************)
C20_LengthScore ==
    /\ \A i \in 1..Len(snakes) : Len(snakes[i].tail) = snakes[i].score + 2
    /\ (Ate /\ pre.snakes[op.who].score = 0 /\ ValueOnHead = 6) =>
          /\ Len(snakes[op.who].tail) = 8
          /\ snakes[op.who].score = 6

\* in the second level or a later one, a snake with no points eats a donut of
\* value 6
C20_Witness ==
    /\ Ate
    /\ level >= 2
    /\ pre.snakes[op.who].score = 0
    /\ ValueOnHead = 6
    /\ Len(snakes[op.who].tail) = 8
    /\ snakes[op.who].score = 6

(***************************************************************************)
(* C21, as claimed: a donut's value is awarded once between two respawns:  *)
(* a donut that is already marked for respawn, because it was eaten or     *)
(* because its lifetime is over, is not eaten again before it is           *)
(* respawned, also when both snakes' heads are on its cell in one tick. A  *)
(* snake that takes its turn in check_collisions and is not reset gains    *)
(* the values of the unmarked donuts on its head's cell and nothing for a  *)
(* marked one. eat_if_you_can compares positions only, so the second snake *)
(* on the cell is awarded the donut the first one has just eaten.          *)
(***************************************************************************)
MarkedOnHead == {k \in OnHead : pre.donuts[k].to_be_reset}

FreshValueOnHead ==
    LET RECURSIVE Sum(_)
        Sum(k) == IF k = 0 THEN 0
                  ELSE (IF k \in OnHead \ MarkedOnHead THEN pre.donuts[k].value ELSE 0)
                       + Sum(k - 1)
    IN  Sum(Len(pre.donuts))

C21_Original ==
    (op.name = "check_collisions" /\ ~ op.reset) =>
        /\ snakes[op.who].score = pre.snakes[op.who].score + FreshValueOnHead
        /\ Len(snakes[op.who].tail) = Len(pre.snakes[op.who].tail) + FreshValueOnHead

(***************************************************************************)
(* C22, as claimed: no overlap is left undetected: when check_collisions   *)
(* of an unpaused tick is over, the head of every snake that was not reset *)
(* in the tick is on a cell that is no maze cell and no tail segment of    *)
(* any snake, the tails of the snakes reset in this tick included.         *)
(* check_collisions tests the snakes in turn, each against the tails as    *)
(* they are at its turn, so a tail that a later snake's reset puts on its  *)
(* start cell is not tested against the heads of the snakes before it.     *)
(***************************************************************************)
CollisionsDone == pc = "check_donuts"

C22_Original ==
    CollisionsDone =>
        \A i \in 1..Len(snakes) :
            i \notin tick.reset => snakes[i].head \notin Obstacles(snakes, maze)
====
